---- MODULE Spec2Model ----
(***************************************************************************)
(* Token store and authentication flow of the drydotai client             *)
(* (src/drydotai/auth.py).                                                 *)
(*                                                                         *)
(* Text is modelled character by character: a string is a sequence of      *)
(* characters, the .env file is the sequence of characters it holds, and   *)
(* strip / startswith / split / readlines / writelines are computed on     *)
(* those characters as Python computes them.                               *)
(***************************************************************************)
EXTENDS Integers, Sequences, FiniteSets, TLC

(***************************************************************************)
(* Bounds of the model.                                                    *)
(***************************************************************************)
\* Largest number of lines of the .env file in an initial state.
MaxLines == 2

(***************************************************************************)
(* Characters and strings.                                                 *)
(***************************************************************************)
NL == "\n"
SP == " "

\* ENV_TOKEN_KEY = "DRY_AI_TOKEN".  The name is one symbol of the texts: no
\* text of the model holds a part of it.
ENV_TOKEN_KEY == <<"DRY_AI_TOKEN">>

\* The characters str.strip() removes (those of them the model's texts use).
IsSpace(c) == c \in {SP, NL, "\t"}

\* Index of the first character of s at or after i that strip() keeps
\* (Len(s) + 1 when there is none).
RECURSIVE FirstKept(_, _)
FirstKept(s, i) ==
    IF i <= Len(s) /\ IsSpace(s[i]) THEN FirstKept(s, i + 1) ELSE i

\* Index of the last character of s at or before j that strip() keeps
\* (0 when there is none).
RECURSIVE LastKept(_, _)
LastKept(s, j) ==
    IF j >= 1 /\ IsSpace(s[j]) THEN LastKept(s, j - 1) ELSE j

\* str.strip()
Strip(s) == SubSeq(s, FirstKept(s, 1), LastKept(s, Len(s)))

\* str.startswith(p)
StartsWith(s, p) == Len(s) >= Len(p) /\ SubSeq(s, 1, Len(p)) = p

\* str.endswith('\n')
EndsWithNL(s) == s # <<>> /\ s[Len(s)] = NL

\* Index of the first '=' of s (0 when there is none).
RECURSIVE FirstEq(_, _)
FirstEq(s, i) ==
    IF i > Len(s) THEN 0 ELSE IF s[i] = "=" THEN i ELSE FirstEq(s, i + 1)

\* line.split('=')[1], the split without its limit: the text between the
\* first '=' and the second.
SplitSecondField(s) ==
    LET rest == SubSeq(s, FirstEq(s, 1) + 1, Len(s))
        e    == FirstEq(rest, 1)
    IN  IF e = 0 THEN rest ELSE SubSeq(rest, 1, e - 1)

\* line.split('=', 1)[1]: the text after the first '='.
SplitAfterFirstEq(s) == SubSeq(s, FirstEq(s, 1) + 1, Len(s))

\* Index of the first '\n' of content at or after i (Len(content) when there
\* is none: the last line then runs to the end of the file).
RECURSIVE LineEnd(_, _)
LineEnd(content, i) ==
    IF i >= Len(content) \/ content[i] = NL THEN i ELSE LineEnd(content, i + 1)

\* f.readlines() / iteration over f: the content cut after every '\n'.
RECURSIVE ReadLinesFrom(_, _)
ReadLinesFrom(content, i) ==
    IF i > Len(content)
    THEN <<>>
    ELSE LET e == LineEnd(content, i)
         IN  <<SubSeq(content, i, e)>> \o ReadLinesFrom(content, e + 1)

ReadLines(content) == ReadLinesFrom(content, 1)

\* f.writelines(lines): the lines one after the other, nothing added.
RECURSIVE WriteLines(_)
WriteLines(lines) ==
    IF lines = <<>> THEN <<>> ELSE Head(lines) \o WriteLines(Tail(lines))

(***************************************************************************)
(* Optional values: Python's None and a present string.                    *)
(***************************************************************************)
None == [has |-> FALSE, val |-> <<>>]
Some(s) == [has |-> TRUE, val |-> s]

\* Python truthiness of an Optional[str]: None and "" are falsy.
Truthy(o) == o.has /\ o.val # <<>>

(***************************************************************************)
(* The lines of the token file.                                            *)
(***************************************************************************)
\* f'{ENV_TOKEN_KEY}='
ActivePrefix == ENV_TOKEN_KEY \o <<"=">>

\* f'# {ENV_TOKEN_KEY}='
CommentedPrefix == <<"#", SP>> \o ENV_TOKEN_KEY \o <<"=">>

\* f'{ENV_TOKEN_KEY}={token}\n'
TokenLine(token) == ActivePrefix \o token \o <<NL>>

\* line.strip().startswith(f'{ENV_TOKEN_KEY}='): what the readers look for.
IsActiveTokenLine(line) == StartsWith(Strip(line), ActivePrefix)

IsCommentedTokenLine(line) == StartsWith(Strip(line), CommentedPrefix)

\* The test of set and clear: an active or a commented token assignment.
IsTokenLine(line) == IsActiveTokenLine(line) \/ IsCommentedTokenLine(line)

(***************************************************************************)
(* Outcomes of the file operations.  open() and the reads and writes that  *)
(* follow it can raise; the program catches Exception around each of them. *)
(***************************************************************************)
\* A read by readlines(): everything, or an exception.
ReadAllOutcomes(faulty) == IF faulty THEN {TRUE, FALSE} ELSE {TRUE}

\* A read line by line: delivered == the number of lines handed to the loop
\* before the exception (open() raising is delivered = 0).
ScanOutcomes(lines, faulty) ==
    {[ok |-> TRUE, delivered |-> Len(lines)]} \cup
    (IF faulty
     THEN {[ok |-> FALSE, delivered |-> k] : k \in 0 .. (IF Len(lines) = 0 THEN 0 ELSE Len(lines) - 1)}
     ELSE {})

\* A rewrite with open(file, 'w') and writelines(lines): done; open() raised
\* (nothing touched); or the file was truncated by open() and the write raised
\* with only the first k lines on disk.
WriteOutcomes(lines, faulty) ==
    {[kind |-> "ok", left |-> WriteLines(lines)]} \cup
    (IF faulty
     THEN {[kind |-> "open_failed", left |-> <<>>]} \cup
          {[kind |-> "write_failed", left |-> WriteLines(SubSeq(lines, 1, k))] :
              k \in 0 .. (Len(lines) - 1)}
     ELSE {})

(***************************************************************************)
(* get: get_stored_token and _DryAIAuth._load_token_from_env.              *)
(***************************************************************************)
\* The loop over the lines of the file: the value of the first active line
\* among the lines delivered, None when the loop ends or raises before one.
RECURSIVE ScanLines(_, _, _)
ScanLines(lines, i, delivered) ==
    IF i > Len(lines) \/ i > delivered
    THEN None
    ELSE IF IsActiveTokenLine(lines[i])
         THEN Some(SplitAfterFirstEq(Strip(lines[i])))
         ELSE ScanLines(lines, i + 1, delivered)

\* Whether the loop over the lines ended in the exception of the read: the
\* read failed before a line made the loop return.
ReadRaised(lines, rd) == ~rd.ok /\ ~ScanLines(lines, 1, rd.delivered).has

\* A get_stored_token() that returns what os.getenv gave when the file gives
\* nothing.
get_stored_token_returns_env(env, exists, content, rd) ==
    IF Truthy(env)
    THEN [result |-> env, opened |-> FALSE]
    ELSE IF exists
         THEN LET found == ScanLines(ReadLines(content), 1, rd.delivered)
              IN  [result |-> IF found.has THEN found ELSE env, opened |-> TRUE]
         ELSE [result |-> env, opened |-> FALSE]

\* A get_stored_token() that looks into the file first and into the
\* environment only when the file gives nothing.
get_stored_token_file_first(env, exists, content, rd) ==
    LET found == IF exists THEN ScanLines(ReadLines(content), 1, rd.delivered) ELSE None
    IN  IF found.has
        THEN [result |-> found, opened |-> TRUE]
        ELSE [result |-> IF Truthy(env) THEN env ELSE None, opened |-> exists]

\* A loop over the lines that takes a commented assignment for a match too.
RECURSIVE ScanTokenLines(_, _, _)
ScanTokenLines(lines, i, delivered) ==
    IF i > Len(lines) \/ i > delivered
    THEN None
    ELSE IF IsTokenLine(lines[i])
         THEN Some(SplitAfterFirstEq(Strip(lines[i])))
         ELSE ScanTokenLines(lines, i + 1, delivered)

\* A get_stored_token() that returns the value of a commented line as well.
get_stored_token_commented_too(env, exists, content, rd) ==
    IF Truthy(env)
    THEN [result |-> env, opened |-> FALSE]
    ELSE IF exists
         THEN [result |-> ScanTokenLines(ReadLines(content), 1, rd.delivered),
               opened |-> TRUE]
         ELSE [result |-> None, opened |-> FALSE]

\* get_stored_token(): result is the value returned, opened says whether the
\* file was opened.
get_stored_token(env, exists, content, rd) ==
    IF Truthy(env)
    THEN [result |-> env, opened |-> FALSE]
    ELSE IF exists
         THEN [result |-> ScanLines(ReadLines(content), 1, rd.delivered), opened |-> TRUE]
         ELSE [result |-> None, opened |-> FALSE]

\* _load_token_from_env(): the new self.current_token.
load_token_from_env(cur, env, exists, content, rd) ==
    IF Truthy(env)
    THEN [result |-> env, opened |-> FALSE]
    ELSE IF exists
         THEN LET found == ScanLines(ReadLines(content), 1, rd.delivered)
              IN  [result |-> IF found.has THEN found ELSE cur, opened |-> TRUE]
         ELSE [result |-> cur, opened |-> FALSE]

(***************************************************************************)
(* set: the rewrite of _DryAIAuth._save_token_to_env.                      *)
(***************************************************************************)
\* A loop that knows only the active form of the token line.
RECURSIVE UpdateActiveLines(_, _)
UpdateActiveLines(env_lines, token) ==
    IF env_lines = <<>>
    THEN <<>>
    ELSE LET line == Head(env_lines)
         IN  <<IF IsActiveTokenLine(line)
                THEN TokenLine(token)
                ELSE IF line # <<>> /\ ~EndsWithNL(line) THEN Append(line, NL) ELSE line>>
             \o UpdateActiveLines(Tail(env_lines), token)

\* The loop of lines 71-81: a token line becomes the new assignment, any
\* other line is kept and given a final newline when it has none.
RECURSIVE UpdateLines(_, _)
UpdateLines(env_lines, token) ==
    IF env_lines = <<>>
    THEN <<>>
    ELSE LET line == Head(env_lines)
         IN  <<IF IsTokenLine(line)
                THEN TokenLine(token)
                ELSE IF line # <<>> /\ ~EndsWithNL(line) THEN Append(line, NL) ELSE line>>
             \o UpdateLines(Tail(env_lines), token)

token_found(env_lines) == \E i \in 1 .. Len(env_lines) : IsTokenLine(env_lines[i])

new_env_lines(env_lines, token) ==
    UpdateLines(env_lines, token) \o
    (IF token_found(env_lines) THEN <<>> ELSE <<TokenLine(token)>>)

(***************************************************************************)
(* clear: the filter of clear_stored_token and _DryAIAuth.clear_token.     *)
(***************************************************************************)
\* A filter that stops looking after the first token line it removed.
RECURSIVE new_lines_first_only(_)
new_lines_first_only(lines) ==
    IF lines = <<>>
    THEN <<>>
    ELSE IF IsTokenLine(Head(lines))
         THEN Tail(lines)
         ELSE <<Head(lines)>> \o new_lines_first_only(Tail(lines))

\* A filter that takes every comment line for a disabled assignment.
RECURSIVE new_lines_no_comments(_)
new_lines_no_comments(lines) ==
    IF lines = <<>>
    THEN <<>>
    ELSE (IF IsTokenLine(Head(lines)) \/ StartsWith(Strip(Head(lines)), <<"#">>)
          THEN <<>>
          ELSE <<Head(lines)>>)
         \o new_lines_no_comments(Tail(lines))

RECURSIVE new_lines(_)
new_lines(lines) ==
    IF lines = <<>>
    THEN <<>>
    ELSE (IF IsTokenLine(Head(lines)) THEN <<>> ELSE <<Head(lines)>>)
         \o new_lines(Tail(lines))

lines_removed(lines) == Cardinality({i \in 1 .. Len(lines) : IsTokenLine(lines[i])})

(***************************************************************************)
(* The token store as a value: the environment entry DRY_AI_TOKEN, the     *)
(* file .env and the current_token of the _DryAIAuth object.               *)
(***************************************************************************)
\* The lines set() works on: those of the file, or none when the file does
\* not exist or readlines() raised (lines 58-67).
env_lines(st, rd_ok) ==
    IF st.exists /\ rd_ok THEN ReadLines(st.content) ELSE <<>>

\* What set() hands to writelines().
SaveData(st, token, rd_ok) == new_env_lines(env_lines(st, rd_ok), token)

\* A _save_token_to_env that sets the environment and the current token
\* before it writes the file.
save_token_to_env_environ_first(st, token, w) ==
    IF w.kind = "ok"
    THEN [env |-> Some(token), exists |-> TRUE, content |-> w.left,
          cur |-> Some(token), raised |-> FALSE]
    ELSE IF w.kind = "open_failed"
         THEN [env |-> Some(token), exists |-> st.exists, content |-> st.content,
               cur |-> Some(token), raised |-> TRUE]
         ELSE [env |-> Some(token), exists |-> TRUE, content |-> w.left,
               cur |-> Some(token), raised |-> TRUE]

\* _save_token_to_env(token) with the outcome w of its rewrite: the store
\* afterwards and whether the call raised (lines 87-96).
save_token_to_env(st, token, w) ==
    IF w.kind = "ok"
    THEN [env |-> Some(token), exists |-> TRUE, content |-> w.left,
          cur |-> Some(token), raised |-> FALSE]
    ELSE IF w.kind = "open_failed"
         THEN [env |-> st.env, exists |-> st.exists, content |-> st.content,
               cur |-> st.cur, raised |-> TRUE]
         ELSE [env |-> st.env, exists |-> TRUE, content |-> w.left,
               cur |-> st.cur, raised |-> TRUE]

\* What clear() hands to writelines() (it is reached only when the read
\* succeeded).
ClearData(st) == new_lines(ReadLines(st.content))

\* The file part of clear_stored_token() and clear_token(): nothing when the
\* file does not exist, nothing when the read raised, else the rewrite with
\* outcome w; every exception ends in the except clause (lines 221-239,
\* 288-310).
clear_file(st, rd_ok, w) ==
    IF ~st.exists \/ ~rd_ok \/ w.kind = "open_failed"
    THEN [exists |-> st.exists, content |-> st.content]
    ELSE [exists |-> TRUE, content |-> w.left]

\* clear_stored_token()
clear_stored_token(st, rd_ok, w) ==
    LET f == clear_file(st, rd_ok, w)
    IN  [env |-> None, exists |-> f.exists, content |-> f.content,
         cur |-> st.cur, raised |-> FALSE]

\* _DryAIAuth.clear_token()
clear_token(st, rd_ok, w) ==
    LET f == clear_file(st, rd_ok, w)
    IN  [env |-> None, exists |-> f.exists, content |-> f.content,
         cur |-> None, raised |-> FALSE]

(***************************************************************************)
(* Inputs.                                                                 *)
(***************************************************************************)
\* Tokens handed to set() and issued by the server: one with '=' in it, one
\* that ends with a blank.
Tokens == {<<"a", "=">>, <<"c", SP>>}

\* Values of the environment entry when the process starts: unset, empty,
\* a token that no line of the file holds.
EnvValues == {None, Some(<<>>), Some(<<"e">>)}

\* Lines an .env file is made of: token assignments (active with blanks
\* around it, commented, active without a value) and unrelated lines
\* (another key, a comment sign without the blank).
LinePool ==
    { <<SP>> \o ActivePrefix \o <<"b", "=", SP, NL>>,
      CommentedPrefix \o <<"o", NL>>,
      ActivePrefix \o <<NL>>,
      <<"X", "=", "1", NL>>,
      <<"#">> \o ActivePrefix \o <<"a", NL>> }

\* All sequences of at most n lines of the pool.
RECURSIVE LineSeqs(_)
LineSeqs(n) ==
    IF n = 0
    THEN {<<>>}
    ELSE LET shorter == LineSeqs(n - 1)
         IN  shorter \cup {Append(ls, l) : ls \in shorter, l \in LinePool}

\* Whether the text ends with line l.
EndsWithLine(c, l) == Len(c) >= Len(l) /\ SubSeq(c, Len(c) - Len(l) + 1, Len(c)) = l

\* The contents of an initial file: whole lines, and files whose last line (an
\* unrelated line or a token line) has no newline.
InitContents ==
    LET whole == {WriteLines(ls) : ls \in LineSeqs(MaxLines)}
        open  == {c \in whole : \/ EndsWithLine(c, <<"X", "=", "1", NL>>)
                                \/ EndsWithLine(c, CommentedPrefix \o <<"o", NL>>)}
    IN  whole \cup {SubSeq(c, 1, Len(c) - 1) : c \in open}

(***************************************************************************)
(* Authentication flow: the server's answers and the user's input.         *)
(***************************************************************************)
\* An optional text that is never taken apart (a message of the server).
Absent == [has |-> FALSE, val |-> ""]

Emails == {"a@b.com"}

UserIds == {None, Some(<<>>), Some(<<"u", "1">>)}

Messages == {Absent, [has |-> TRUE, val |-> "bad code"]}

\* What comes back from requests.post(.../register-user): kind is
\* "transport" (requests.RequestException: no connection, an HTTP error
\* status), "badjson" (a body that is not JSON, response.json() raising
\* json.JSONDecodeError as requests before 2.27 does), "badjson_request" (the
\* same body, response.json() raising requests.exceptions.JSONDecodeError,
\* which is a requests.RequestException too, as requests from 2.27 on does:
\* the first except clause takes it) or "json" (a JSON object, here
\* a refusal with or without a message, a refusal that names a user all the
\* same, or a success with or without userId).
RegisterResponses ==
    {[kind |-> k, success |-> FALSE, userId |-> None, message |-> Absent] :
        k \in {"transport", "badjson", "badjson_request"}}
    \cup [kind : {"json"}, success : {FALSE}, userId : {None}, message : Messages]
    \cup {[kind |-> "json", success |-> FALSE, userId |-> Some(<<"u", "1">>),
           message |-> Absent]}
    \cup [kind : {"json"}, success : {TRUE}, userId : UserIds, message : {Absent}]

\* No verify-email response: the flow ended before one arrived, or the
\* operation was not authenticate_user.
NoResp == [kind |-> "none", success |-> FALSE, verified |-> FALSE,
           mcpToken |-> None, message |-> Absent]

\* What comes back from requests.post(.../verify-email): a failed request, an
\* unparseable body, a refusal (success or verified not true, with or without
\* a message, and with a token all the same), or a success with, without or
\* with an empty mcpToken.
VerifyResponses ==
    {[kind |-> k, success |-> FALSE, verified |-> FALSE, mcpToken |-> None,
      message |-> Absent] : k \in {"transport", "badjson", "badjson_request"}}
    \cup {r \in [kind : {"json"}, success : BOOLEAN, verified : BOOLEAN,
                 mcpToken : {Some(<<"a", "=">>)}, message : Messages] :
             ~(r.success /\ r.verified)}
    \cup [kind : {"json"}, success : {TRUE}, verified : {TRUE},
          mcpToken : {None, Some(<<>>)} \cup {Some(t) : t \in Tokens},
          message : {Absent}]

\* What the user types at the prompt: nothing, blanks, a code.
CodeInputs == {<<>>, <<SP>>, <<SP, "1", "2", NL>>}

\* A register_or_login that has one message for every refusal.
register_or_login_one_message(resp) ==
    IF resp.kind \in {"transport", "badjson_request"}
    THEN [raised |-> TRUE, err |-> "Registration request failed"]
    ELSE IF resp.kind = "badjson"
         THEN [raised |-> TRUE, err |-> "Invalid JSON response"]
         ELSE IF resp.success
              THEN [raised |-> FALSE, err |-> ""]
              ELSE [raised |-> TRUE, err |-> "Registration failed"]

\* A register_or_login that hands a refusal back as if it were data.
register_or_login_lenient(resp) ==
    IF resp.kind \in {"transport", "badjson_request"}
    THEN [raised |-> TRUE, err |-> "Registration request failed"]
    ELSE IF resp.kind = "badjson"
         THEN [raised |-> TRUE, err |-> "Invalid JSON response"]
         ELSE [raised |-> FALSE, err |-> ""]

\* register_or_login(email): raised with the exception's message, or the
\* response data.
register_or_login(resp) ==
    IF resp.kind \in {"transport", "badjson_request"}
    THEN [raised |-> TRUE, err |-> "Registration request failed"]
    ELSE IF resp.kind = "badjson"
         THEN [raised |-> TRUE, err |-> "Invalid JSON response"]
         ELSE IF resp.success
              THEN [raised |-> FALSE, err |-> ""]
              ELSE [raised |-> TRUE,
                    err |-> IF resp.message.has THEN resp.message.val
                            ELSE "Registration failed"]

\* A verify_email that returns the token it was issued without storing it.
verify_email_no_save(st, resp, w) ==
    LET same == [env |-> st.env, exists |-> st.exists, content |-> st.content,
                 cur |-> st.cur]
    IN  IF resp.kind = "json" /\ resp.success /\ resp.verified /\ Truthy(resp.mcpToken)
        THEN [store |-> same, saved |-> FALSE, raised |-> FALSE, err |-> "",
              token |-> resp.mcpToken]
        ELSE [store |-> same, saved |-> FALSE, raised |-> TRUE,
              err |-> "Email verification failed", token |-> None]

\* A verify_email that stores the token of the response before it looks at
\* success and verified.
verify_email_save_first(st, resp, w) ==
    LET same == [env |-> st.env, exists |-> st.exists, content |-> st.content,
                 cur |-> st.cur]
    IN  IF resp.kind \in {"transport", "badjson_request"}
        THEN [store |-> same, saved |-> FALSE, raised |-> TRUE,
              err |-> "Verification request failed", token |-> None]
        ELSE IF resp.kind = "badjson"
        THEN [store |-> same, saved |-> FALSE, raised |-> TRUE,
              err |-> "Invalid JSON response", token |-> None]
        ELSE IF ~Truthy(resp.mcpToken)
        THEN [store |-> same, saved |-> FALSE, raised |-> TRUE,
              err |-> "No mcpToken returned from verification", token |-> None]
        ELSE LET done == save_token_to_env(st, resp.mcpToken.val, w)
                 ok == resp.success /\ resp.verified /\ ~done.raised
             IN  [store |-> [env |-> done.env, exists |-> done.exists,
                             content |-> done.content, cur |-> done.cur],
                  saved |-> TRUE,
                  raised |-> ~ok,
                  err |-> IF done.raised THEN "Failed to save token to .env file"
                          ELSE IF ok THEN ""
                          ELSE IF resp.message.has THEN resp.message.val
                          ELSE "Email verification failed",
                  token |-> IF ok THEN resp.mcpToken ELSE None]

\* A verify_email without the test of lines 152-153: whatever mcpToken is, it
\* is stored and returned.
verify_email_unchecked(st, resp, w) ==
    LET same == [env |-> st.env, exists |-> st.exists, content |-> st.content,
                 cur |-> st.cur]
    IN  IF resp.kind \in {"transport", "badjson_request"}
        THEN [store |-> same, saved |-> FALSE, raised |-> TRUE,
              err |-> "Verification request failed", token |-> None]
        ELSE IF resp.kind = "badjson"
        THEN [store |-> same, saved |-> FALSE, raised |-> TRUE,
              err |-> "Invalid JSON response", token |-> None]
        ELSE IF resp.success /\ resp.verified
        THEN LET done == save_token_to_env(st, resp.mcpToken.val, w)
             IN  [store |-> [env |-> done.env, exists |-> done.exists,
                             content |-> done.content, cur |-> done.cur],
                  saved |-> TRUE,
                  raised |-> done.raised,
                  err |-> IF done.raised THEN "Failed to save token to .env file"
                          ELSE "",
                  token |-> IF done.raised THEN None ELSE resp.mcpToken]
        ELSE [store |-> same, saved |-> FALSE, raised |-> TRUE,
              err |-> IF resp.message.has THEN resp.message.val
                      ELSE "Email verification failed",
              token |-> None]

\* A verify_email that returns the token of the server whether
\* _save_token_to_env raised or not.
verify_email_returns_anyway(st, resp, w) ==
    LET same == [env |-> st.env, exists |-> st.exists, content |-> st.content,
                 cur |-> st.cur]
    IN  IF resp.kind \in {"transport", "badjson_request"}
        THEN [store |-> same, saved |-> FALSE, raised |-> TRUE,
              err |-> "Verification request failed", token |-> None]
        ELSE IF resp.kind = "badjson"
        THEN [store |-> same, saved |-> FALSE, raised |-> TRUE,
              err |-> "Invalid JSON response", token |-> None]
        ELSE IF resp.success /\ resp.verified
        THEN IF ~Truthy(resp.mcpToken)
             THEN [store |-> same, saved |-> FALSE, raised |-> TRUE,
                   err |-> "No mcpToken returned from verification", token |-> None]
             ELSE LET done == save_token_to_env(st, resp.mcpToken.val, w)
                  IN  [store |-> [env |-> done.env, exists |-> done.exists,
                                  content |-> done.content, cur |-> done.cur],
                       saved |-> TRUE,
                       raised |-> FALSE,
                       err |-> "",
                       token |-> resp.mcpToken]
        ELSE [store |-> same, saved |-> FALSE, raised |-> TRUE,
              err |-> IF resp.message.has THEN resp.message.val
                      ELSE "Email verification failed",
              token |-> None]

\* verify_email(code, user_id, email) on the store st, with the outcome w of
\* the rewrite should the token be saved: the store afterwards, whether
\* _save_token_to_env was called, whether the call raised and with which
\* message, and the token returned.
verify_email(st, resp, w) ==
    LET same == [env |-> st.env, exists |-> st.exists, content |-> st.content,
                 cur |-> st.cur]
    IN  IF resp.kind \in {"transport", "badjson_request"}
        THEN [store |-> same, saved |-> FALSE, raised |-> TRUE,
              err |-> "Verification request failed", token |-> None]
        ELSE IF resp.kind = "badjson"
        THEN [store |-> same, saved |-> FALSE, raised |-> TRUE,
              err |-> "Invalid JSON response", token |-> None]
        ELSE IF resp.success /\ resp.verified
        THEN IF ~Truthy(resp.mcpToken)
             THEN [store |-> same, saved |-> FALSE, raised |-> TRUE,
                   err |-> "No mcpToken returned from verification", token |-> None]
             ELSE LET done == save_token_to_env(st, resp.mcpToken.val, w)
                  IN  [store |-> [env |-> done.env, exists |-> done.exists,
                                  content |-> done.content, cur |-> done.cur],
                       saved |-> TRUE,
                       raised |-> done.raised,
                       err |-> IF done.raised THEN "Failed to save token to .env file"
                               ELSE "",
                       token |-> IF done.raised THEN None ELSE resp.mcpToken]
        ELSE [store |-> same, saved |-> FALSE, raised |-> TRUE,
              err |-> IF resp.message.has THEN resp.message.val
                      ELSE "Email verification failed",
              token |-> None]

(***************************************************************************)
(* client.py: the CRUD client and the functions of the module.             *)
(***************************************************************************)
\* How many times the email address is counted as asked for.
MaxFlows == 2

\* The functions of the module that need a credential, the methods of
\* DryAIClient, and the method each function calls.
SpaceOps == {"create_space", "get_space", "get_space_by_id"}

CrudOps == {"create_item", "get_item", "list_items", "update_item", "update_items",
            "delete_item", "delete_items_by_query"}

CrudOf(op) ==
    IF op = "create_space" THEN "create_item"
    ELSE IF op \in {"get_space", "get_space_by_id"} THEN "get_item"
    ELSE op

\* The auth argument of a function: not given, or a token.
AuthArgs == {None, Some(<<"k">>)}

\* The server of a DryAIClient made without DRY_AI_SERVER.
DefaultServer == "https://dry.ai"

\* os.getenv('DRY_AI_SERVER') at a call: not set, or another server.
ServerValues == {Absent, [has |-> TRUE, val |-> "https://s.example"]}

\* DRY_AI_VERBOSE is not set: a DryAIClient made without its verbose
\* argument is not verbose.
EnvVerbose == FALSE

\* No set_verbose_logging yet.
NotSet == [has |-> FALSE, val |-> FALSE]

\* What the user types when asked for the email address.
EmailInputs == {<<>>, <<SP>>, <<"a@b.com">>}

\* What comes back from requests.get/post/put/delete: no response
\* ("transport"), an HTTP error status ("status"), a body that is not JSON
\* ("badjson"), or a JSON object: {} ("empty"), one with neither item nor
\* items ("other"), with item, with items: [] or with items: [...].
CrudResponses ==
    {[kind |-> k, body |-> "none"] : k \in {"transport", "status", "badjson"}}
    \cup [kind : {"json"}, body : {"empty", "other", "item", "items_empty", "items"}]

\* No response yet.
NoAnswer == [kind |-> "none", body |-> "none"]

\* A _make_request that asks a second time when the request failed.
make_request_again(resp, caught) ==
    IF resp.kind \in {"transport", "status"}
    THEN [raised |-> FALSE, data |-> "None", requests |-> 2]
    ELSE IF resp.kind = "badjson"
         THEN [raised |-> ~caught, data |-> "None", requests |-> 1]
         ELSE [raised |-> FALSE, data |-> resp.body, requests |-> 1]

\* DryAIClient._make_request: the data returned (None after a
\* requests.RequestException), whether an exception left it, and the number
\* of requests it made.  response.json() on a body that is not JSON raises an
\* exception that is a requests.RequestException, and is caught, or is not,
\* with the version of requests installed.
make_request(resp, caught) ==
    IF resp.kind \in {"transport", "status"}
    THEN [raised |-> FALSE, data |-> "None", requests |-> 1]
    ELSE IF resp.kind = "badjson"
         THEN [raised |-> ~caught, data |-> "None", requests |-> 1]
         ELSE [raised |-> FALSE, data |-> resp.body, requests |-> 1]

\* What a method of DryAIClient returns on the data of _make_request.
ItemResult(op, data) ==
    IF op \in {"create_item", "update_item"}
    THEN (IF data = "items" THEN "item" ELSE "None")
    ELSE IF op = "get_item"
    THEN (IF data = "item" THEN "item" ELSE "None")
    ELSE IF op \in {"list_items", "update_items"}
    THEN (IF data = "items" THEN "list" ELSE "[]")
    ELSE (IF data # "None" THEN "True" ELSE "False")

\* What create_space, get_space and get_space_by_id make of the item.
SpaceResult(item) == IF item = "item" THEN "Space" ELSE "None"

\* The empty result of an operation.
EmptyResult(op) ==
    IF op \in SpaceOps \cup {"create_item", "update_item", "get_item"} THEN "None"
    ELSE IF op \in {"list_items", "update_items"} THEN "[]"
    ELSE "False"

\* A _get_auth_token that asks whenever no auth argument was given.
get_auth_token_always_asks(auth, stored, auto_authenticate) ==
    IF Truthy(auth)
    THEN [ask |-> FALSE, token |-> auth]
    ELSE [ask |-> auto_authenticate, token |-> None]

\* _get_auth_token up to the prompt for the email address: the token it
\* returns, or that it goes on to ask (stored is what get_stored_token
\* returned).
get_auth_token(auth, stored, auto_authenticate) ==
    IF Truthy(auth)
    THEN [ask |-> FALSE, token |-> auth]
    ELSE IF Truthy(stored)
         THEN [ask |-> FALSE, token |-> stored]
         ELSE [ask |-> auto_authenticate, token |-> None]

\* The module's _client as DryAIClient() makes it when the module is
\* imported, and no call yet.
\*   token    _client.auth_token
\*   stage    where the running call is: "none" (no call running), "email"
\*            (waiting in input() for the email address), "auth"
\*            (authenticate_user is running), "wait" (waiting for the
\*            response to the CRUD request)
\*   op, auth the function called and its auth argument; stored, what
\*            get_stored_token returned to it; found, what _get_auth_token
\*            returned
\*   asked    whether the call asked for the email address
\*   sent     the number of CRUD requests the call sent, and bearer, the
\*            token in the Authorization header of the request
\*   answer   the response to the request, and result, what the call
\*            returned ("raised": an exception left it)
\*   flows    the times the email address was asked for (counted up to
\*            MaxFlows), yielded, whether a flow has returned a token, and
\*            late, whether the email address was asked for after that
\*   server   _client.server, and verbose, _client.verbose
\*   server_url  what os.getenv('DRY_AI_SERVER') gives to the running call
\*   anew     whether the call replaced _client
\*   to       the server the request of the call went to, and loud, the
\*            verbose of the client that sent it
\*   wanted   the argument of the last set_verbose_logging
NewClient(env) ==
    [token |-> env, stage |-> "none", op |-> "none", auth |-> None, stored |-> None,
     found |-> None, asked |-> FALSE, sent |-> 0, bearer |-> None,
     answer |-> NoAnswer, result |-> "none",
     flows |-> 0, yielded |-> FALSE, late |-> FALSE,
     server |-> DefaultServer, verbose |-> EnvVerbose, server_url |-> Absent,
     anew |-> FALSE, to |-> "", loud |-> FALSE, wanted |-> NotSet]

(***************************************************************************)
(* Two processes that call _save_token_to_env on the same file.            *)
(***************************************************************************)
Procs == {1, 2}

\* The number of characters one write() puts into the file.  The file that
\* open(file, 'w') returns is buffered: writelines() and the close() at the
\* end of the with block hand a text longer than the buffer to the file in
\* several write() calls, each at the offset where the one before ended.
\* The buffer holds some thousands of characters; the files of the model are
\* short, and so is its buffer.
ChunkSize == 3

\* A byte of a hole: what a file holds where nothing was written, after a
\* write beyond its end.
NUL == "\\0"

\* write(fd, data) at offset off of a file opened without O_APPEND: the
\* data replace what is there, the file grows when they end beyond its end.
WriteAt(content, off, data) ==
    LET end   == off + Len(data)
        total == IF end > Len(content) THEN end ELSE Len(content)
    IN  [i \in 1 .. total |->
            IF i > off /\ i <= end
            THEN data[i - off]
            ELSE IF i <= Len(content) THEN content[i] ELSE NUL]

\* The part of data the next write() takes, off characters being written.
Chunk(data, off) ==
    SubSeq(data, off + 1,
           IF off + ChunkSize < Len(data) THEN off + ChunkSize ELSE Len(data))

\* A process at the call of _save_token_to_env(token): at is "start" (line
\* 58), "read" (the file is read, line 87 is next), "open" (open(file, 'w')
\* returned, the text data is being written, off characters of it are in the
\* file) or "done" (the call returned); env and cur are the process's
\* os.environ entry and current_token.
RaceProc(token) ==
    [op |-> "set", at |-> "start", token |-> token, data |-> <<>>, off |-> 0,
     env |-> None, cur |-> None]

\* A process at the call of clear_stored_token(), with the same places.
ClearProc == [RaceProc(<<>>) EXCEPT !.op = "clear"]

\* The tokens of the two processes: of two lengths, and each of them read
\* back as it was written when its process runs alone.
RaceTokens == {<<"a", "=">>, <<"b">>}

\* No process is racing.
NoRace == [proc |-> [p \in Procs |-> [RaceProc(<<>>) EXCEPT !.at = "none"]],
           completed |-> <<>>]

(***************************************************************************)
(* client.py: DryAIItem, the wrapper of an item of an API response.        *)
(***************************************************************************)
\* Largest number of keys of the data of an item.
MaxKeys == 3

\* The letters of the model's names, in their two cases.
LowerLetters == <<"d", "e", "g", "i", "t">>
UpperLetters == <<"D", "E", "G", "I", "T">>

LetterPlace(letters, c) ==
    IF \E i \in 1 .. Len(letters) : letters[i] = c
    THEN CHOOSE i \in 1 .. Len(letters) : letters[i] = c
    ELSE 0

\* str.lower() and str.upper()
Lower(name) ==
    [i \in 1 .. Len(name) |->
        IF LetterPlace(UpperLetters, name[i]) # 0
        THEN LowerLetters[LetterPlace(UpperLetters, name[i])]
        ELSE name[i]]

Upper(name) ==
    [i \in 1 .. Len(name) |->
        IF LetterPlace(LowerLetters, name[i]) # 0
        THEN UpperLetters[LetterPlace(LowerLetters, name[i])]
        ELSE name[i]]

\* str.capitalize(): the first character in upper case, the rest in lower
\* case.
Capitalize(name) ==
    IF name = <<>> THEN <<>> ELSE Upper(<<Head(name)>>) \o Lower(Tail(name))

\* The keys of the data of an item.  The data is the sequence of its keys in
\* the order of the dict; the value of a key is told by the key.
DataKeys ==
    { <<"t", "e">>, <<"T", "e">>, <<"T", "E">>, <<"t", "E">>,
      <<"g", "e", "t">>, <<"G", "e", "t">>,
      <<"I", "D">>, <<"i", "d">> }

\* The attribute names asked of an item: id is set by __init__, get is a
\* method of the class, the others are neither.
AttrNames ==
    { <<"i", "d">>, <<"g", "e", "t">>,
      <<"t", "e">>, <<"T", "e">>, <<"T", "E">>, <<"t", "E">>, <<"e", "t">> }

\* The attributes __init__ sets (lines 24-31; name, description, url, _data
\* and _client are outside the model's names), and the names the class
\* defines (update, delete, keys, values, items are outside them).
InstanceAttributes == {<<"i", "d">>}
ClassAttributes == {<<"g", "e", "t">>}

\* What an attribute access gives: the value of a key of the data, None, or
\* a bound method.
Value(key) == [kind |-> "value", key |-> key]
PyNone == [kind |-> "None", key |-> <<>>]
Method == [kind |-> "method", key |-> <<>>]
NotAsked == [kind |-> "none", key |-> <<>>]

HasKey(data, key) == \E i \in 1 .. Len(data) : data[i] = key

\* self._data.get(key)
DataGet(data, key) == IF HasKey(data, key) THEN Value(key) ELSE PyNone

\* The loop of lines 63-65 from key i on.
RECURSIVE ScanKeys(_, _, _)
ScanKeys(data, i, name) ==
    IF i > Len(data)
    THEN PyNone
    ELSE IF Lower(data[i]) = Lower(name)
         THEN Value(data[i])
         ELSE ScanKeys(data, i + 1, name)

\* A __getattr__ that tries the upper-cased name before the capitalized one.
DryAIItem_getattr_upper_first(data, name) ==
    IF HasKey(data, name) THEN Value(name)
    ELSE IF HasKey(data, Upper(name)) THEN Value(Upper(name))
    ELSE IF HasKey(data, Capitalize(name)) THEN Value(Capitalize(name))
    ELSE ScanKeys(data, 1, name)

\* DryAIItem.__getattr__(name)
DryAIItem_getattr(data, name) ==
    IF HasKey(data, name) THEN Value(name)
    ELSE IF HasKey(data, Capitalize(name)) THEN Value(Capitalize(name))
    ELSE IF HasKey(data, Upper(name)) THEN Value(Upper(name))
    ELSE ScanKeys(data, 1, name)

\* item.<name>: the attribute of the instance, else the attribute of the
\* class, else what __getattr__ returns.
Attribute(it, name) ==
    IF name \in InstanceAttributes THEN it.id
    ELSE IF name \in ClassAttributes THEN Method
    ELSE DryAIItem_getattr(it.data, name)

\* DryAIItem(data, client): asked and got are the name of the last
\* attribute access and what it gave.
NewItem(data) ==
    [data |-> data, id |-> DataGet(data, <<"I", "D">>), asked |-> <<>>,
     got |-> NotAsked]

(***************************************************************************)
(* State.                                                                  *)
(***************************************************************************)
VARIABLES
    environ,        \* os.environ.get(ENV_TOKEN_KEY): None when unset
    file_exists,    \* os.path.exists(ENV_FILE)
    file_content,   \* the characters of ENV_FILE
    current_token,  \* _DryAIAuth.current_token
    pc,             \* where authenticate_user is: "idle" (not running),
                    \* "register" (waiting for the register-user response),
                    \* "prompt" (waiting in input()), "verify" (waiting for
                    \* the verify-email response)
    flow,           \* locals of the running authenticate_user
    events,         \* what the running (or just finished) authenticate_user
                    \* did to the outside, in order
    last,           \* the last operation completed: what it was given, what
                    \* came of it, and the store before it
    client,         \* client.py: the module's _client and the call of one of
                    \* its functions that is running or ended last
    race,           \* the processes that run _save_token_to_env side by
                    \* side, and the order in which their writes completed
    wrapped         \* a DryAIItem and the last attribute asked of it

vars == <<environ, file_exists, file_content, current_token, pc, flow, events, last,
          client, race, wrapped>>

Store == [env |-> environ, exists |-> file_exists, content |-> file_content,
          cur |-> current_token]

NoWrite == [kind |-> "none", left |-> <<>>]

NoFlow == [email |-> "", reg |-> [kind |-> "none"], code |-> <<>>]

\* Whether the operation recorded found its file operations all succeeding.
FileOpsDone(rd_ok, wr) == rd_ok /\ wr \in {"ok", "none"}

\* The record of an operation that just completed in the current state:
\*   op       its name
\*   raised   whether it raised to its caller (authenticate_user: whether it
\*            caught an exception), err the message of the exception
\*   result   the value returned
\*   opened   whether it opened the file for reading
\*   rd_ok    whether its read of the file went through
\*   wr       the outcome of its rewrite of the file
\*   resp     the verify-email response it received
\*   clears   how many clears ended in a row with this operation, and clean,
\*            how many clears whose file operations all succeeded (both
\*            counted up to two)
\*   pre      the store before it
Done(op, raised, result, opened, rd_ok, w, err, resp) ==
    [op |-> op, raised |-> raised, result |-> result, opened |-> opened,
     rd_ok |-> rd_ok, wr |-> w.kind, err |-> err, resp |-> resp,
     clears |-> IF op \in {"clear_stored_token", "clear_token"}
                THEN (IF last.clears >= 1 THEN 2 ELSE 1)
                ELSE 0,
     clean |-> IF op \in {"clear_stored_token", "clear_token"} /\ FileOpsDone(rd_ok, w.kind)
               THEN (IF last.clean >= 1 THEN 2 ELSE 1)
               ELSE 0,
     pre |-> Store]

SetStore(st) ==
    /\ environ' = st.env
    /\ file_exists' = st.exists
    /\ file_content' = st.content
    /\ current_token' = st.cur

\* An operation of the store runs while no authenticate_user is running, and
\* leaves no trace of an earlier one.
Idle ==
    /\ pc = "idle"
    /\ pc' = "idle"
    /\ flow' = NoFlow
    /\ events' = <<>>
    /\ client' = client
    /\ race' = race
    /\ wrapped' = wrapped

InitStore ==
    /\ environ \in EnvValues
    /\ file_exists \in BOOLEAN
    /\ file_content \in (IF file_exists THEN InitContents ELSE {<<>>})
    /\ current_token = None
    /\ pc = "idle"
    /\ flow = NoFlow
    /\ events = <<>>
    /\ last = [op |-> "none", raised |-> FALSE, result |-> None, opened |-> FALSE,
               rd_ok |-> TRUE, wr |-> "none", err |-> "", resp |-> NoResp,
               clears |-> 0, clean |-> 0,
               pre |-> [env |-> environ, exists |-> file_exists,
                        content |-> file_content, cur |-> None]]

\* The token store in any state, and client.py out of use: its _client holds
\* no token.
Init ==
    /\ InitStore
    /\ client = NewClient(None)
    /\ race = NoRace
    /\ wrapped = NewItem(<<>>)

(***************************************************************************)
(* Operations of the token store.                                          *)
(***************************************************************************)
\* get_stored_token()
GetStoredToken(faulty) ==
    /\ Idle
    /\ \E rd \in ScanOutcomes(ReadLines(file_content), faulty) :
           LET r == get_stored_token(environ, file_exists, file_content, rd)
           IN  /\ r.opened \/ rd.ok
               /\ last' = Done("get_stored_token", FALSE, r.result, r.opened,
                               ~(r.opened /\ ReadRaised(ReadLines(file_content), rd)),
                               NoWrite, "", NoResp)
               /\ UNCHANGED <<environ, file_exists, file_content, current_token>>

\* The outcomes of the file operations of a clear: of the read, and of the
\* rewrite, which happens only when the file exists and was read.
ClearOutcomes(faulty) ==
    IF file_exists
    THEN {[rd_ok |-> TRUE, w |-> w] : w \in WriteOutcomes(ClearData(Store), faulty)}
         \cup {[rd_ok |-> FALSE, w |-> NoWrite] : x \in ReadAllOutcomes(faulty) \ {TRUE}}
    ELSE {[rd_ok |-> TRUE, w |-> NoWrite]}

\* clear_stored_token()
ClearStoredToken(faulty) ==
    /\ Idle
    /\ \E o \in ClearOutcomes(faulty) :
           LET st == clear_stored_token(Store, o.rd_ok, o.w)
           IN  /\ SetStore(st)
               /\ last' = Done("clear_stored_token", st.raised, None, file_exists,
                               o.rd_ok, o.w, "", NoResp)

\* _DryAIAuth.clear_token()
ClearToken(faulty) ==
    /\ Idle
    /\ \E o \in ClearOutcomes(faulty) :
           LET st == clear_token(Store, o.rd_ok, o.w)
           IN  /\ SetStore(st)
               /\ last' = Done("clear_token", st.raised, None, file_exists,
                               o.rd_ok, o.w, "", NoResp)

(***************************************************************************)
(* authenticate_user(email), step by step: it blocks in two HTTP requests  *)
(* and in input().  _save_token_to_env, the set of the token store, runs   *)
(* inside its last step.                                                   *)
(***************************************************************************)
\* How authenticate_user ends: with the token, or with None after printing
\* the message of the exception it caught (lines 199-203).
Return(st, token, err, resp, rd_ok, w) ==
    /\ pc' = "idle"
    /\ SetStore(st)
    /\ last' = Done("authenticate_user", err # "", token, FALSE, rd_ok, w, err, resp)

\* authenticate_user(email, server): _DryAIAuth(server) is built, loading
\* current_token, and the register-user request is sent.
AuthenticateUser(faulty) ==
    /\ pc = "idle"
    /\ client' = client
    /\ race' = race
    /\ wrapped' = wrapped
    /\ \E email \in Emails, rd \in ScanOutcomes(ReadLines(file_content), faulty) :
           LET r == load_token_from_env(None, environ, file_exists, file_content, rd)
           IN  /\ r.opened \/ rd.ok
               /\ pc' = "register"
               /\ flow' = [email |-> email, reg |-> [kind |-> "none"], code |-> <<>>]
               /\ events' = <<"register_request">>
               /\ current_token' = r.result
               /\ last' = Done("load_token_from_env", FALSE, r.result, r.opened,
                               ~(r.opened /\ ReadRaised(ReadLines(file_content), rd)),
                               NoWrite, "", NoResp)
               /\ UNCHANGED <<environ, file_exists, file_content>>

\* The register-user response arrives: register_or_login returns or raises,
\* userId is looked at, and the prompt is shown (lines 183-191).
RegisterResponse ==
    /\ pc = "register"
    /\ client' = client
    /\ race' = race
    /\ wrapped' = wrapped
    /\ \E resp \in RegisterResponses :
           LET r == register_or_login(resp)
           IN  /\ flow' = [flow EXCEPT !.reg = resp]
               /\ IF r.raised
                  THEN /\ Return(Store, None, r.err, NoResp, TRUE, NoWrite)
                       /\ events' = events
                  ELSE IF ~Truthy(resp.userId)
                  THEN /\ Return(Store, None, "No userId returned from registration",
                                 NoResp, TRUE, NoWrite)
                       /\ events' = events
                  ELSE /\ pc' = "prompt"
                       /\ events' = Append(events, "code_prompt")
                       /\ UNCHANGED <<environ, file_exists, file_content,
                                      current_token, last>>

\* A prompt whose answer is taken as typed, blanks included.
ReadCodeUnstripped ==
    /\ pc = "prompt"
    /\ client' = client
    /\ race' = race
    /\ wrapped' = wrapped
    /\ \E typed \in CodeInputs :
           /\ flow' = [flow EXCEPT !.code = typed]
           /\ IF typed = <<>>
              THEN /\ Return(Store, None, "Verification code is required", NoResp,
                             TRUE, NoWrite)
                   /\ events' = events
              ELSE /\ pc' = "verify"
                   /\ events' = Append(events, "verify_request")
                   /\ UNCHANGED <<environ, file_exists, file_content,
                                  current_token, last>>

\* A prompt that asks again when nothing was typed.
ReadCodeAgain ==
    /\ pc = "prompt"
    /\ client' = client
    /\ race' = race
    /\ wrapped' = wrapped
    /\ \E typed \in CodeInputs :
           LET code == Strip(typed)
           IN  /\ flow' = [flow EXCEPT !.code = code]
               /\ IF code = <<>>
                  THEN /\ pc' = "prompt"
                       /\ events' = Append(events, "code_prompt")
                       /\ UNCHANGED <<environ, file_exists, file_content,
                                      current_token, last>>
                  ELSE /\ pc' = "verify"
                       /\ events' = Append(events, "verify_request")
                       /\ UNCHANGED <<environ, file_exists, file_content,
                                      current_token, last>>

\* The user answers the prompt: the code is stripped, and when something is
\* left the verify-email request is sent (lines 191-197, 136-145).
ReadCode ==
    /\ pc = "prompt"
    /\ client' = client
    /\ race' = race
    /\ wrapped' = wrapped
    /\ \E typed \in CodeInputs :
           LET code == Strip(typed)
           IN  /\ flow' = [flow EXCEPT !.code = code]
               /\ IF code = <<>>
                  THEN /\ Return(Store, None, "Verification code is required", NoResp,
                                 TRUE, NoWrite)
                       /\ events' = events
                  ELSE /\ pc' = "verify"
                       /\ events' = Append(events, "verify_request")
                       /\ UNCHANGED <<environ, file_exists, file_content,
                                      current_token, last>>

\* The verify-email response arrives: verify_email saves the token and
\* returns it, or raises (lines 146-173, 197-203).  rd_ok and w are the
\* outcomes of the read and of the rewrite inside _save_token_to_env; they
\* matter only when it is called.
VerifyResponse(faulty) ==
    /\ pc = "verify"
    /\ client' = client
    /\ race' = race
    /\ wrapped' = wrapped
    /\ \E resp \in VerifyResponses, rd_ok \in ReadAllOutcomes(faulty) :
           \E w \in WriteOutcomes(SaveData(Store, resp.mcpToken.val, rd_ok), faulty) :
               LET v == verify_email(Store, resp, w)
               IN  /\ IF v.saved THEN file_exists \/ rd_ok ELSE rd_ok /\ w.kind = "ok"
                   /\ flow' = flow
                   /\ events' = IF v.saved THEN Append(events, "store_write") ELSE events
                   /\ Return(v.store, v.token, v.err, resp,
                             rd_ok, IF v.saved THEN w ELSE NoWrite)

(***************************************************************************)
(* The functions of client.py.                                             *)
(***************************************************************************)
\* The record of no operation of the store: the functions of client.py keep
\* none.
NoRecord ==
    [op |-> "none", raised |-> FALSE, result |-> None, opened |-> FALSE,
     rd_ok |-> TRUE, wr |-> "none", err |-> "", resp |-> NoResp,
     clears |-> 0, clean |-> 0,
     pre |-> [env |-> environ', exists |-> file_exists',
              content |-> file_content', cur |-> current_token']]

\* No call of a function of client.py and no authenticate_user is running.
ClientIdle == pc = "idle" /\ client.stage = "none"

\* DryAIClient(auth_token=auth_token, server_url=server_url) in the place of
\* the _client of c: the token given or else the environment's, the server
\* given or else the default one, and the verbosity of the environment.
DryAIClient(c, auth_token, server_url) ==
    [c EXCEPT !.token = IF Truthy(auth_token) THEN auth_token ELSE environ,
              !.server = IF server_url.has THEN server_url.val ELSE DefaultServer,
              !.verbose = EnvVerbose]

\* A rest of the three functions that makes _client anew for another token
\* only, not for another server.
SendRequestTokenOnly(c, token) ==
    LET server_url == c.server_url
        anew == Truthy(token) /\ c.token # token
        n    == IF anew THEN DryAIClient(c, token, server_url) ELSE c
    IN  [n EXCEPT !.found = token,
                  !.anew = anew,
                  !.stage = "wait",
                  !.sent = 1,
                  !.bearer = IF Truthy(n.token) THEN n.token ELSE None,
                  !.to = n.server,
                  !.loud = n.verbose]

\* The rest of create_space, get_space, get_space_by_id once _get_auth_token
\* returned token: _client is made anew when the token is another one, and
\* the method of _client sends its request, with the Authorization header
\* that _get_headers gives it.
SendRequest(c, token) ==
    LET server_url == c.server_url
        anew == \/ Truthy(token) /\ c.token # token
                \/ server_url.has /\ c.server # server_url.val
        n    == IF anew THEN DryAIClient(c, token, server_url) ELSE c
    IN  [n EXCEPT !.found = token,
                  !.anew = anew,
                  !.stage = "wait",
                  !.sent = 1,
                  !.bearer = IF Truthy(n.token) THEN n.token ELSE None,
                  !.to = n.server,
                  !.loud = n.verbose]

\* create_space(query, auth), get_space(query, auth), get_space_by_id(id,
\* auth): _get_auth_token up to its return or to the prompt for the email.
SpaceCall(faulty, servers) ==
    /\ ClientIdle
    /\ \E op \in SpaceOps, auth \in AuthArgs, server_url \in servers,
          rd \in ScanOutcomes(ReadLines(file_content), faulty) :
           LET g == get_stored_token(environ, file_exists, file_content, rd)
               stored == IF Truthy(auth) THEN None ELSE g.result
               t == get_auth_token(auth, stored, TRUE)
               c == [client EXCEPT !.op = op, !.auth = auth, !.stored = stored,
                                   !.found = None, !.asked = t.ask, !.sent = 0,
                                   !.bearer = None, !.answer = NoAnswer,
                                   !.result = "none",
                                   !.server_url = server_url, !.anew = FALSE,
                                   !.to = "", !.loud = FALSE]
           IN  /\ (~Truthy(auth) /\ g.opened) \/ rd.ok
               /\ client' = IF t.ask
                            THEN [c EXCEPT !.stage = "email",
                                           !.flows = IF client.flows < MaxFlows
                                                     THEN client.flows + 1
                                                     ELSE client.flows,
                                           !.late = client.late \/ client.yielded]
                            ELSE SendRequest(c, t.token)
               /\ events' = <<>>
               /\ flow' = NoFlow
               /\ UNCHANGED <<wrapped, race, environ, file_exists, file_content, current_token, pc>>
               /\ last' = NoRecord

\* The user answers the prompt for the email address: with nothing,
\* _get_auth_token returns None; otherwise authenticate_user is called
\* (lines 374-383).
ReadEmail ==
    /\ client.stage = "email"
    /\ \E typed \in EmailInputs :
           client' = IF Strip(typed) = <<>>
                     THEN SendRequest(client, None)
                     ELSE [client EXCEPT !.stage = "auth"]
    /\ UNCHANGED <<wrapped, race, environ, file_exists, file_content, current_token, pc, flow,
                   events, last>>

\* authenticate_user returned to _get_auth_token, which returns its token or
\* None (lines 383-393).
AuthReturns ==
    /\ client.stage = "auth"
    /\ pc = "idle"
    /\ events # <<>>
    /\ client' = [SendRequest(client, last.result)
                     EXCEPT !.yielded = client.yielded \/ Truthy(last.result)]
    /\ events' = <<>>
    /\ flow' = NoFlow
    /\ UNCHANGED <<wrapped, race, environ, file_exists, file_content, current_token, pc>>
    /\ last' = NoRecord

\* A method of _client is called directly.
CrudCall ==
    /\ ClientIdle
    /\ \E op \in CrudOps :
           client' = [client EXCEPT !.op = op, !.auth = None, !.stored = None,
                                    !.found = None, !.asked = FALSE,
                                    !.stage = "wait", !.sent = 1,
                                    !.bearer = IF Truthy(client.token)
                                               THEN client.token ELSE None,
                                    !.answer = NoAnswer, !.result = "none",
                                    !.server_url = Absent, !.anew = FALSE,
                                    !.to = client.server,
                                    !.loud = client.verbose]
    /\ events' = <<>>
    /\ flow' = NoFlow
    /\ UNCHANGED <<wrapped, race, environ, file_exists, file_content, current_token, pc, last>>

\* The response to the CRUD request arrives: _make_request returns, and the
\* method and the function return.
CrudResponse ==
    /\ client.stage = "wait"
    /\ \E resp \in CrudResponses, caught \in BOOLEAN :
           LET m == make_request(resp, caught)
               item == ItemResult(CrudOf(client.op), m.data)
           IN  /\ resp.kind = "badjson" \/ caught
               /\ client' = [client EXCEPT
                                !.stage = "none",
                                !.sent = m.requests,
                                !.answer = resp,
                                !.result = IF m.raised THEN "raised"
                                           ELSE IF client.op \in SpaceOps
                                                THEN SpaceResult(item)
                                                ELSE item]
    /\ UNCHANGED <<wrapped, race, environ, file_exists, file_content, current_token, pc, flow,
                   events, last>>

\* The functions of client.py over the token store and authenticate_user.
NextClient ==
    \/ SpaceCall(TRUE, {Absent})
    \/ ReadEmail
    \/ client.stage = "auth" /\ events = <<>> /\ AuthenticateUser(TRUE)
                            
    \/ client.stage = "auth" /\ RegisterResponse
    \/ client.stage = "auth" /\ ReadCode
    \/ client.stage = "auth" /\ VerifyResponse(TRUE)
    \/ AuthReturns
    \/ CrudResponse

\* The process starts on a file of at most one line, and client.py makes
\* its _client from the environment.
InitClient ==
    /\ InitStore
    /\ Len(ReadLines(file_content)) <= 1
    /\ client = NewClient(environ)
    /\ race = NoRace
    /\ wrapped = NewItem(<<>>)

SpecClient == InitClient /\ [][NextClient]_vars

\* set_verbose_logging(enabled)
SetVerboseLogging ==
    /\ ClientIdle
    /\ \E enabled \in BOOLEAN :
           client' = [client EXCEPT !.verbose = enabled,
                                    !.wanted = [has |-> TRUE, val |-> enabled]]
    /\ UNCHANGED <<wrapped, race, environ, file_exists, file_content, current_token, pc, flow,
                   events, last>>

\* The functions of client.py in a process where DRY_AI_SERVER is set or
\* not at each call, and set_verbose_logging.
NextSpaces ==
    \/ SpaceCall(TRUE, ServerValues)
    \/ SetVerboseLogging
    \/ ReadEmail
    \/ client.stage = "auth" /\ events = <<>> /\ AuthenticateUser(TRUE)
    \/ client.stage = "auth" /\ RegisterResponse
    \/ client.stage = "auth" /\ ReadCode
    \/ client.stage = "auth" /\ VerifyResponse(TRUE)
    \/ AuthReturns
    \/ CrudResponse

\* The process starts with or without a token in its environment, and
\* with no file or a file of one active token line.
InitSpaces ==
    /\ InitClient
    /\ environ \in {None, Some(<<"e">>)}
    /\ file_exists => /\ Len(ReadLines(file_content)) = 1
                      /\ IsActiveTokenLine(ReadLines(file_content)[1])

SpecSpaces == InitSpaces /\ [][NextSpaces]_vars

\* The methods of _client, called one after the other.
NextCrud ==
    \/ CrudCall
    \/ CrudResponse

SpecCrud == InitClient /\ [][NextCrud]_vars

(***************************************************************************)
(* _save_token_to_env in two processes at once.                            *)
(***************************************************************************)
RaceFrame == UNCHANGED <<environ, current_token, pc, flow, events, last, client, wrapped>>

\* Lines 58-85: the process reads the file, if there is one, and makes the
\* lines it will write.
RaceRead(p) ==
    /\ race.proc[p].at = "start"
    /\ race.proc[p].op = "set"
    /\ race' = [race EXCEPT
                   !.proc[p].at = "read",
                   !.proc[p].data =
                       WriteLines(SaveData(Store, race.proc[p].token, TRUE))]
    /\ UNCHANGED <<file_exists, file_content>>
    /\ RaceFrame

\* clear_stored_token, lines 284-300: the environment entry is removed; the
\* process reads the file and makes the lines it will write, or returns
\* when there is no file.
RaceClearRead(p) ==
    /\ race.proc[p].at = "start"
    /\ race.proc[p].op = "clear"
    /\ race' = IF file_exists
               THEN [race EXCEPT !.proc[p].at = "read",
                                 !.proc[p].data = WriteLines(ClearData(Store))]
               ELSE [race EXCEPT !.proc[p].at = "done"]
    /\ UNCHANGED <<file_exists, file_content>>
    /\ RaceFrame

\* Line 89: open(file, 'w') makes the file or empties it.
RaceOpen(p) ==
    /\ race.proc[p].at = "read"
    /\ file_exists' = TRUE
    /\ file_content' = <<>>
    /\ race' = [race EXCEPT !.proc[p].at = "open", !.proc[p].off = 0]
    /\ RaceFrame

\* Lines 90-94: one write() of the text; after the last one the file is
\* closed and the process sets its os.environ entry and its current_token.
\* Lines 302-303 of clear_stored_token: the same, and nothing is set (with no
\* line to write the file is only closed).
RaceWrite(p) ==
    LET me    == race.proc[p]
        chunk == Chunk(me.data, me.off)
        off   == me.off + Len(chunk)
    IN  /\ me.at = "open"
        /\ file_content' = WriteAt(file_content, me.off, chunk)
        /\ race' = IF off < Len(me.data)
                   THEN [race EXCEPT !.proc[p].off = off]
                   ELSE IF me.op = "clear"
                   THEN [race EXCEPT !.proc[p].off = off,
                                     !.proc[p].at = "done",
                                     !.completed = Append(race.completed, p)]
                   ELSE [race EXCEPT !.proc[p].off = off,
                                     !.proc[p].at = "done",
                                     !.proc[p].env = Some(me.token),
                                     !.proc[p].cur = Some(me.token),
                                     !.completed = Append(race.completed, p)]
        /\ UNCHANGED file_exists
        /\ RaceFrame

NextRace ==
    \/ \E p \in Procs : RaceRead(p)
    \/ \E p \in Procs : RaceOpen(p)
    \/ \E p \in Procs : RaceWrite(p)

\* Two processes with no token in their environment call set(t1) and
\* set(t2) on a file of at most one line.
InitRace ==
    /\ InitStore
    /\ environ = None
    /\ Len(ReadLines(file_content)) <= 1
    /\ client = NewClient(None)
    /\ wrapped = NewItem(<<>>)
    /\ race \in {[proc |-> [p \in Procs |-> RaceProc(IF p = 1 THEN t1 ELSE t2)],
                  completed |-> <<>>] : t1 \in RaceTokens, t2 \in RaceTokens}

SpecRace == InitRace /\ [][NextRace]_vars

\* Two processes, each in set or in clear.
NextRaceOps ==
    \/ \E p \in Procs : RaceRead(p)
    \/ \E p \in Procs : RaceClearRead(p)
    \/ \E p \in Procs : RaceOpen(p)
    \/ \E p \in Procs : RaceWrite(p)

InitRaceOps ==
    /\ InitStore
    /\ environ = None
    /\ Len(ReadLines(file_content)) <= 1
    /\ client = NewClient(None)
    /\ wrapped = NewItem(<<>>)
    /\ race \in [proc : [Procs -> {RaceProc(t) : t \in RaceTokens} \cup {ClearProc}],
                  completed : {<<>>}]

SpecRaceOps == InitRaceOps /\ [][NextRaceOps]_vars

(***************************************************************************)
(* A DryAIItem in use.                                                     *)
(***************************************************************************)
ItemFrame == UNCHANGED <<environ, file_exists, file_content, current_token, pc,
                         flow, events, last, client, race>>

\* item.<name>
GetAttr ==
    /\ \E name \in AttrNames :
           wrapped' = [wrapped EXCEPT !.asked = name, !.got = Attribute(wrapped, name)]
    /\ ItemFrame

\* item[key] = value (lines 74-76): a new key goes to the end of the dict.
SetItem ==
    /\ \E key \in DataKeys :
           /\ HasKey(wrapped.data, key) \/ Len(wrapped.data) < MaxKeys
           /\ wrapped' = [wrapped EXCEPT
                          !.data = IF HasKey(wrapped.data, key)
                                   THEN wrapped.data ELSE Append(wrapped.data, key),
                          !.asked = <<>>,
                          !.got = NotAsked]
    /\ ItemFrame

NextItem ==
    \/ GetAttr
    \/ SetItem

\* An item made of a response with at most one key, then used.
InitItem ==
    /\ InitStore
    /\ environ = None
    /\ ~file_exists
    /\ client = NewClient(None)
    /\ race = NoRace
    /\ wrapped \in {NewItem(<<>>)} \cup {NewItem(<<k>>) : k \in DataKeys}

SpecItem == InitItem /\ [][NextItem]_vars

\* The program on a file system whose operations may fail.
Next ==
    \/ GetStoredToken(TRUE)
    \/ ClearStoredToken(TRUE)
    \/ ClearToken(TRUE)
    \/ AuthenticateUser(TRUE)
    \/ RegisterResponse
    \/ ReadCode
    \/ VerifyResponse(TRUE)

Spec == Init /\ [][Next]_vars

\* Calls of authenticate_user, one after the other, from every state of the
\* store, when every request it waits for is answered and the user answers
\* the prompt: requests.post and input() return or raise.
NextAuth ==
    \/ AuthenticateUser(TRUE)
    \/ RegisterResponse
    \/ ReadCode
    \/ VerifyResponse(TRUE)

SpecLive ==
    /\ Init
    /\ [][NextAuth]_vars
    /\ WF_vars(RegisterResponse)
    /\ WF_vars(ReadCode)
    /\ WF_vars(VerifyResponse(TRUE))

\* The program on a file system whose operations all succeed.
NextNoFault ==
    \/ GetStoredToken(FALSE)
    \/ ClearStoredToken(FALSE)
    \/ ClearToken(FALSE)
    \/ AuthenticateUser(FALSE)
    \/ RegisterResponse
    \/ ReadCode
    \/ VerifyResponse(FALSE)

SpecNoFault == Init /\ [][NextNoFault]_vars

(***************************************************************************)
(* Properties.                                                             *)
(***************************************************************************)
\* The lines of the file now, and before the last operation.
FileLines == ReadLines(file_content)
PreLines == ReadLines(last.pre.content)

\* A line that assigns the token: after trimming it starts with
\* DRY_AI_TOKEN= (active) or with # DRY_AI_TOKEN= (commented, disabled).
ActiveLine(l) == StartsWith(Strip(l), <<"DRY_AI_TOKEN", "=">>)
CommentedLine(l) == StartsWith(Strip(l), <<"#", SP, "DRY_AI_TOKEN", "=">>)
AssignsToken(l) == ActiveLine(l) \/ CommentedLine(l)
Unrelated(l) == ~AssignsToken(l)

\* The places of the lines of ls that assign the token.
TokenPlaces(ls) == {i \in 1 .. Len(ls) : AssignsToken(ls[i])}

\* The active assignment of token t, as a line without its newline.
Assignment(t) == <<"DRY_AI_TOKEN", "=">> \o t

\* The text of a line: the line without the newline that ends it.
LineText(l) == IF EndsWithNL(l) THEN SubSeq(l, 1, Len(l) - 1) ELSE l

\* A read of the whole file that does not fail.
FullRead(content) == [ok |-> TRUE, delivered |-> Len(ReadLines(content))]

\* What get() returns now in this process, and what it returns in a fresh
\* process, where the environment entry is not set.
GetHere == get_stored_token(environ, file_exists, file_content,
                            FullRead(file_content)).result
GetFresh == get_stored_token(None, file_exists, file_content,
                             FullRead(file_content)).result

\* set(t) has just completed without error: _save_token_to_env was called
\* by the last step of authenticate_user and did not raise.
SetCalled == last.op = "authenticate_user" /\ events # <<>>
                /\ events[Len(events)] = "store_write"
SetDone == SetCalled /\ ~last.raised
SetToken == last.resp.mcpToken.val

EndsWithSpace(t) == t # <<>> /\ IsSpace(t[Len(t)])

C2_EnvPrecedence ==
    last.op \in {"get_stored_token", "load_token_from_env"} =>
        /\ Truthy(last.pre.env) => last.result = last.pre.env /\ ~last.opened
        /\ last.opened => ~Truthy(last.pre.env)
        /\ last.op = "load_token_from_env" => current_token = last.result

\* get() ran with a token in the environment and a different one in the file.
C2_Witness ==
    /\ last.op = "get_stored_token"
    /\ Truthy(environ)
    /\ Truthy(GetFresh)
    /\ GetFresh # environ
    /\ last.result = environ

\* C3: set(new_token) on a file that holds a token line leaves as many lines
\* as there were; every unrelated line is at its place with its text
\* unchanged, and every token line has become DRY_AI_TOKEN=new_token.
C3_RewriteKeepsOtherLines ==
    (SetDone /\ TokenPlaces(PreLines) # {}) =>
        /\ Len(FileLines) = Len(PreLines)
        /\ \A i \in 1 .. Len(PreLines) :
               IF AssignsToken(PreLines[i])
               THEN FileLines[i] = Append(Assignment(SetToken), NL)
               ELSE LineText(FileLines[i]) = LineText(PreLines[i])

Clears == {"clear_stored_token", "clear_token"}

\* The store without the current token of the auth object.
SameEnvAndFile(st) ==
    /\ environ = st.env
    /\ file_exists = st.exists
    /\ file_content = st.content

\* C5 as stated: clear() never raises and get() returns absent after it; a
\* second clear() in a row leaves environment, file and get() as they were.
C5_ClearAlwaysAbsent ==
    last.op \in Clears =>
        /\ ~last.raised
        /\ GetHere = None
        /\ last.clears >= 2 => SameEnvAndFile(last.pre)

\* C5: clear() never raises and removes the environment entry; when the file
\* does not exist, or its read and its rewrite succeed, get() returns absent
\* afterwards, and a second clear() in a row (its file operations succeeding
\* too) leaves environment, file and the result of get() as they were.
C5_ClearIdempotent ==
    last.op \in Clears =>
        /\ ~last.raised
        /\ environ = None
        /\ last.clean >= 1 => GetHere = None
        /\ last.clean >= 2 =>
               /\ SameEnvAndFile(last.pre)
               /\ GetHere = get_stored_token(last.pre.env, last.pre.exists,
                                             last.pre.content,
                                             FullRead(last.pre.content)).result

\* A second clear in a row ended, on a file that still holds its unrelated
\* lines.
C5_Witness ==
    /\ last.op \in Clears
    /\ last.clean >= 2
    /\ file_exists
    /\ FileLines # <<>>
    /\ GetHere = None

\* C6 as stated: clear() removes the environment entry and every token line
\* of the file, keeps every other line unchanged and in order, and modifies
\* nothing else.
C6_ClearRemovesTokenLines ==
    last.op \in Clears =>
        /\ environ = None
        /\ file_exists = last.pre.exists
        /\ FileLines = SelectSeq(PreLines, Unrelated)
        /\ last.op = "clear_stored_token" => current_token = last.pre.cur

\* C6: clear() removes the environment entry and does not create the file;
\* when the file was read and rewritten, the file holds the lines that are
\* not token lines, unchanged and in order; when the read or the opening for
\* the rewrite failed, the file is as it was.  clear_stored_token does not
\* touch the current token of an auth object.
C6_ClearEffectAndFrame ==
    last.op \in Clears =>
        /\ environ = None
        /\ file_exists = last.pre.exists
        /\ (last.rd_ok /\ last.wr \in {"ok", "none"}) =>
               FileLines = SelectSeq(PreLines, Unrelated)
        /\ (~last.rd_ok \/ last.wr = "open_failed") =>
               file_content = last.pre.content
        /\ last.op = "clear_stored_token" => current_token = last.pre.cur

\* clear_stored_token ran with a token in the environment, on a file with a
\* token line and an unrelated line, and rewrote the file.
C6_Witness ==
    /\ last.op = "clear_stored_token"
    /\ Truthy(last.pre.env)
    /\ last.wr = "ok"
    /\ TokenPlaces(PreLines) # {}
    /\ FileLines # <<>>
    /\ Len(FileLines) < Len(PreLines)

\* authenticate_user ended on a verify-email response, which was a JSON
\* object.
Verified == last.op = "authenticate_user" /\ last.resp.kind = "json"

\* ... that said success and verified and carried a token.
Issued ==
    /\ Verified
    /\ last.resp.success /\ last.resp.verified
    /\ Truthy(last.resp.mcpToken)

HasLine(l) == \E i \in 1 .. Len(FileLines) : FileLines[i] = l

\* C7 as stated: when verify returns success and verified with token T,
\* authenticate returns T, get() returns T and the file has DRY_AI_TOKEN=T.
C7_EndToEndAlways ==
    Issued =>
        /\ last.result = last.resp.mcpToken
        /\ GetHere = last.resp.mcpToken
        /\ HasLine(Append(Assignment(SetToken), NL))

\* C7: when verify returns success and verified with token T and the rewrite
\* of the file succeeds, authenticate returns T, get() in the process returns
\* T, T is the current token and the file has the line DRY_AI_TOKEN=T; when
\* the rewrite fails, authenticate returns nothing, and the environment and
\* the current token are as before.
C7_EndToEnd ==
    Issued =>
        IF last.wr = "ok"
        THEN /\ ~last.raised
             /\ last.result = last.resp.mcpToken
             /\ GetHere = last.resp.mcpToken
             /\ current_token = last.resp.mcpToken
             /\ HasLine(Append(Assignment(SetToken), NL))
        ELSE /\ last.raised
             /\ last.result = None
             /\ environ = last.pre.env
             /\ current_token = last.pre.cur

\* authenticate ended with the token of the server, which replaced another
\* token of the environment.
C7_Witness ==
    /\ Issued
    /\ last.wr = "ok"
    /\ last.result = Some(<<"a", "=">>)
    /\ Truthy(last.pre.env)
    /\ last.pre.env # last.result
    /\ GetHere = last.result
    /\ flow.code = <<"1", "2">>

\* C8: when the verify-email response says success false or verified false,
\* verify fails with the message of the server if there is one (with "Email
\* verification failed" if not), authenticate returns nothing, and file,
\* environment and current token are as before the call.
C8_FailedVerificationWritesNothing ==
    (Verified /\ ~(last.resp.success /\ last.resp.verified)) =>
        /\ last.raised
        /\ last.err = (IF last.resp.message.has THEN last.resp.message.val
                       ELSE "Email verification failed")
        /\ last.result = None
        /\ Store = last.pre
        /\ last.wr = "none"
        /\ events = <<"register_request", "code_prompt", "verify_request">>

\* A response with success true, verified false, a message and a token all
\* the same was received.
C8_Witness ==
    /\ Verified
    /\ last.resp.success /\ ~last.resp.verified
    /\ Truthy(last.resp.mcpToken)
    /\ last.err = "bad code"
    /\ file_exists
    /\ Store = last.pre

\* C9: when the verify-email response says success and verified but carries
\* no token, or an empty one, verify fails with "No mcpToken returned from
\* verification", authenticate returns nothing, and file, environment and
\* current token are as before the call.
C9_SuccessWithoutToken ==
    (Verified /\ last.resp.success /\ last.resp.verified
              /\ ~Truthy(last.resp.mcpToken)) =>
        /\ last.raised
        /\ last.err = "No mcpToken returned from verification"
        /\ last.result = None
        /\ Store = last.pre
        /\ last.wr = "none"
        /\ events = <<"register_request", "code_prompt", "verify_request">>

\* A response with success, verified and an empty mcpToken was received.
C9_Witness ==
    /\ Verified
    /\ last.resp.success /\ last.resp.verified
    /\ last.resp.mcpToken = Some(<<>>)
    /\ last.raised
    /\ file_exists

Order == <<"register_request", "code_prompt", "verify_request", "store_write">>

\* C10: what authenticate_user did so far is a beginning of register
\* request, code prompt, verify request, token store write; the prompt is
\* shown only after a register response with success and a non-empty userId,
\* the verify request sent only after a non-empty code was read as well, and
\* the store written only after a verify response with success, verified and
\* a non-empty token; and the flow waits where its last event left it.
C10_Ordering ==
    /\ Len(events) <= Len(Order)
    /\ \A i \in 1 .. Len(events) : events[i] = Order[i]
    /\ Len(events) >= 2 =>
           /\ flow.reg.kind = "json"
           /\ flow.reg.success
           /\ Truthy(flow.reg.userId)
    /\ Len(events) >= 3 => flow.code # <<>>
    /\ Len(events) >= 4 => Issued
    /\ pc = "register" => events = SubSeq(Order, 1, 1)
    /\ pc = "prompt" => events = SubSeq(Order, 1, 2)
    /\ pc = "verify" => events = SubSeq(Order, 1, 3)
    /\ pc = "idle" => events = <<>> \/ last.op = "authenticate_user"

\* A run of authenticate_user went through all four events.
C10_Witness ==
    /\ events = Order
    /\ pc = "idle"
    /\ ~last.raised

\* How often event e happened in the run of authenticate_user.
Times(e) == Cardinality({i \in 1 .. Len(events) : events[i] = e})

\* authenticate_user has ended: it returned the token it was issued, or it
\* caught an exception and returned nothing.
EndedCleanly ==
    last.op = "authenticate_user" =>
        /\ pc = "idle"
        /\ IF last.raised
           THEN last.result = None /\ last.err # ""
           ELSE Issued /\ last.result = last.resp.mcpToken

\* C11: every call of authenticate_user ends (once its requests and its
\* prompt are answered), with the token or with nothing, whatever failed in
\* it; in one call the register request is sent at most once, the code is
\* asked for at most once and the verify request is sent at most once.
C11_NoRetryAndTermination ==
    /\ [](EndedCleanly /\ \A e \in {"register_request", "code_prompt",
                                    "verify_request", "store_write"} : Times(e) <= 1)
    /\ (pc # "idle") ~> (pc = "idle")

\* authenticate_user ended with nothing after the save of an issued token
\* failed.
C11_Witness ==
    /\ last.op = "authenticate_user"
    /\ Issued
    /\ last.wr = "write_failed"
    /\ last.raised
    /\ last.result = None
    /\ pc = "idle"

\* C12: when the code read from the prompt is empty once its whitespace is
\* stripped, authenticate returns nothing, no verify request is sent, and
\* file, environment and current token are as they were.
C12_MissingCodeIsTerminal ==
    (Len(events) >= 2 /\ pc \in {"verify", "idle"} /\ Strip(flow.code) = <<>>) =>
        /\ pc = "idle"
        /\ last.op = "authenticate_user"
        /\ last.raised
        /\ last.err = "Verification code is required"
        /\ last.result = None
        /\ last.resp = NoResp
        /\ events = <<"register_request", "code_prompt">>
        /\ Store = last.pre

\* authenticate_user ended at the prompt, with a token in the environment
\* and a file that are still there.
C12_Witness ==
    /\ last.op = "authenticate_user"
    /\ events = <<"register_request", "code_prompt">>
    /\ flow.code = <<>>
    /\ last.err = "Verification code is required"
    /\ Truthy(environ)
    /\ file_exists
    /\ file_content # <<>>

\* The register-user response of the run arrived, and it lets the flow go on:
\* a JSON object with success and a userId.
RegArrived == flow.reg.kind # "none"
RegGoesOn == flow.reg.kind = "json" /\ flow.reg.success /\ Truthy(flow.reg.userId)

\* The message register_or_login, or the look at userId, fails with.
RegMessage ==
    IF flow.reg.kind \in {"transport", "badjson_request"}
    THEN "Registration request failed"
    ELSE IF flow.reg.kind = "badjson" THEN "Invalid JSON response"
    ELSE IF ~flow.reg.success
         THEN (IF flow.reg.message.has THEN flow.reg.message.val
               ELSE "Registration failed")
    ELSE "No userId returned from registration"

\* C13: register_or_login raises when the request fails or the response has
\* no true success, with the message of the server when there is one, and
\* returns the data only on success; after a failed register, or a response
\* without userId, authenticate ends with nothing before any prompt or verify
\* request, and file, environment and current token are as they were.
C13_RegisterFailureEndsFlow ==
    RegArrived =>
        IF RegGoesOn
        THEN Len(events) >= 2 /\ events[2] = "code_prompt"
        ELSE /\ pc = "idle"
             /\ last.op = "authenticate_user"
             /\ last.raised
             /\ last.err = RegMessage
             /\ last.result = None
             /\ events = <<"register_request">>
             /\ Store = last.pre

\* A refusal with a message of the server ended the flow.
C13_Witness ==
    /\ RegArrived
    /\ flow.reg.kind = "json"
    /\ ~flow.reg.success
    /\ flow.reg.message.has
    /\ last.err = flow.reg.message.val
    /\ events = <<"register_request">>
    /\ file_exists

\* A call of create_space, get_space or get_space_by_id that has no
\* credential: no auth argument, nothing in the token store, and no token from
\* the authentication flow.
NoCredential ==
    /\ client.op \in SpaceOps
    /\ client.stage \in {"wait", "none"}
    /\ ~Truthy(client.auth)
    /\ ~Truthy(client.stored)
    /\ ~Truthy(client.found)

\* C14: create_space, get_space and get_space_by_id send no CRUD request
\* when no credential is available.
C14_CredentialGating == NoCredential => client.sent = 0

\* C15 as stated: in one process the authentication flow is started once, at
\* a call that finds no credential, and never again.
C15_AuthenticationOnce ==
    /\ client.flows <= 1
    /\ client.asked => ~Truthy(client.auth) /\ ~Truthy(client.stored)

\* C15: over the calls of create_space, get_space and get_space_by_id of one
\* process, the authentication flow is started by the calls that find no
\* credential (no auth argument, no token in the environment or the file)
\* and by no other call, and once a flow has returned a token no later call
\* starts it again.
C15_LazyAuthentication ==
    /\ client.op \in SpaceOps =>
           (client.asked <=> ~Truthy(client.auth) /\ ~Truthy(client.stored))
    /\ client.asked => client.flows >= 1
    /\ ~client.late
    /\ client.yielded => Truthy(environ)

\* After a flow that returned nothing and a second one that returned a token,
\* a call found the token in the store and did not ask.
C15_Witness ==
    /\ client.flows = 2
    /\ client.yielded
    /\ client.op \in SpaceOps
    /\ ~Truthy(client.auth)
    /\ Truthy(client.stored)
    /\ ~client.asked
    /\ client.sent = 1

\* C18: a method of DryAIClient sends one request per call, and when the
\* request fails (no response, or an HTTP error status) it returns its empty
\* result: None, an empty list or False.
C18_NoRetryInClient ==
    client.op \in CrudOps =>
        /\ client.sent = 1
        /\ (client.stage = "none" /\ client.answer.kind \in {"transport", "status"}) =>
               client.result = EmptyResult(client.op)

\* delete_item returned False after an HTTP error status.
C18_Witness ==
    /\ client.op = "delete_item"
    /\ client.stage = "none"
    /\ client.answer.kind = "status"
    /\ client.result = "False"
    /\ client.sent = 1

\* C16: when the rewrite of the file fails in set(token), at open() or in
\* the middle of the write, set raises "Failed to save token to .env file",
\* and the environment entry and the current token are as before the call;
\* they are the new token only when the rewrite succeeded.
C16_SetSurfacesWriteFailure ==
    SetCalled =>
        IF last.wr \in {"open_failed", "write_failed"}
        THEN /\ last.raised
             /\ last.err = "Failed to save token to .env file"
             /\ environ = last.pre.env
             /\ current_token = last.pre.cur
        ELSE /\ last.wr = "ok"
             /\ ~last.raised
             /\ environ = Some(SetToken)
             /\ current_token = Some(SetToken)

\* The write of set failed midway, with another token in the environment: the
\* file has changed, the environment has not.
C16_Witness ==
    /\ SetCalled
    /\ last.wr = "write_failed"
    /\ last.raised
    /\ Truthy(last.pre.env)
    /\ environ = last.pre.env
    /\ file_content # last.pre.content

\* C17: when the environment entry holds no token and the read of the file
\* fails, get_stored_token returns None and _load_token_from_env leaves the
\* current token None; neither raises, and file and environment are as they
\* were.
C17_ReadFailureSwallowed ==
    (last.op \in {"get_stored_token", "load_token_from_env"}
        /\ ~Truthy(last.pre.env) /\ ~last.rd_ok) =>
        /\ last.opened
        /\ ~last.raised
        /\ last.result = None
        /\ SameEnvAndFile(last.pre)
        /\ last.op = "get_stored_token" => current_token = last.pre.cur
        /\ last.op = "load_token_from_env" => current_token = None

\* get_stored_token failed to read a file that holds an active token line,
\* with an empty environment entry.
C17_Witness ==
    /\ last.op = "get_stored_token"
    /\ ~last.rd_ok
    /\ environ = Some(<<>>)
    /\ Truthy(GetFresh)
    /\ last.result = None

\* The body of the register-user response, or of the verify-email response,
\* could not be parsed.
RegMalformed ==
    /\ last.op = "authenticate_user"
    /\ events = <<"register_request">>
    /\ flow.reg.kind \in {"badjson", "badjson_request"}

VerifyMalformed ==
    /\ last.op = "authenticate_user"
    /\ last.resp.kind \in {"badjson", "badjson_request"}

\* C19: a response whose body cannot be parsed makes register_or_login and
\* verify_email fail with "Invalid JSON response", which is neither the
\* failure of a request ("... request failed") nor a message of the server.
C19_MalformedIsDistinct ==
    (RegMalformed \/ VerifyMalformed) =>
        /\ last.raised
        /\ last.err = "Invalid JSON response"
        /\ last.err \notin {"Registration request failed", "Verification request failed"}

\* Both processes have returned from set().
BothFinished == Len(race.completed) = 2

\* The process whose file write completed last.
LastWriter == race.proc[race.completed[2]]

\* C20: when set(t1) and set(t2) of two processes have both finished, however
\* their steps were interleaved, a read of the file gives the token of the
\* process whose write completed last.
C20_LastWriterWins == BothFinished => GetFresh = Some(LastWriter.token)

\* The place of the first line of ls at or after i that is an active
\* assignment (0 when there is none).
RECURSIVE FirstActive(_, _)
FirstActive(ls, i) ==
    IF i > Len(ls) THEN 0 ELSE IF ActiveLine(ls[i]) THEN i ELSE FirstActive(ls, i + 1)

\* The text after the first '=' of the trimmed line l, which has one.
ValueOf(l) ==
    LET t == Strip(l)
        k == CHOOSE i \in 1 .. Len(t) :
                 t[i] = "=" /\ \A j \in 1 .. (i - 1) : t[j] # "="
    IN  SubSeq(t, k + 1, Len(t))

\* What the scan of the file st held should give.
Scanned(st) ==
    LET ls == ReadLines(st.content)
        k  == IF st.exists THEN FirstActive(ls, 1) ELSE 0
    IN  IF k = 0 THEN None ELSE Some(ValueOf(ls[k]))

\* get() was called with no token in the environment entry.
GetFromFile == last.op = "get_stored_token" /\ ~Truthy(last.pre.env)

\* C21 as stated: with no token in the environment entry, get() returns the
\* value of the first active assignment of the file, and None when the file
\* has none.
C21_FileScanAlways == GetFromFile => last.result = Scanned(last.pre)

\* C21, amended: with no token in the environment entry, get() returns the
\* value of the first active assignment of the file, and None when the file
\* has none or when the read fails before it comes to that line; the value
\* of a commented or an unrelated line is never returned.
C21_FileScan ==
    GetFromFile =>
        /\ last.result = IF last.rd_ok THEN Scanned(last.pre) ELSE None
        /\ ~last.raised
        /\ last.result.has =>
               \E i \in 1 .. Len(PreLines) :
                   /\ ActiveLine(PreLines[i])
                   /\ \A j \in 1 .. (i - 1) : ~ActiveLine(PreLines[j])
                   /\ last.result.val = ValueOf(PreLines[i])

\* get() passed over a first line that is not an active assignment and
\* returned the value of the second.
C21_Witness ==
    /\ GetFromFile
    /\ Len(PreLines) = 2
    /\ ~ActiveLine(PreLines[1])
    /\ AssignsToken(PreLines[1])
    /\ last.result = Some(<<"b", "=">>)

\* C27: the token in the Authorization header of the request of a call of
\* create_space, get_space or get_space_by_id is the token resolved for that
\* call (its auth argument, else the stored token, else the token obtained by
\* the authentication just run); a call that resolved no token sends none,
\* whatever token an earlier call was given.
C27_NoReuseOfEarlierToken ==
    (client.op \in SpaceOps /\ client.sent >= 1) =>
        client.bearer = IF Truthy(client.found) THEN client.found ELSE None

\* The step in which a call of create_space, get_space or get_space_by_id
\* sends its request: before it _client is the one the call found, after it
\* the one that sent the request.
Sends ==
    /\ client.stage # "wait"
    /\ client'.stage = "wait"
    /\ client'.op \in SpaceOps

\* C22: when a call of create_space, get_space or get_space_by_id resolved a
\* non-empty token T that is not the token of _client, or DRY_AI_SERVER is
\* set to a server S that is not the server of _client, _client is replaced
\* before the request; the request carries T, when the call resolved one, and
\* goes to S, when DRY_AI_SERVER is set.
C22_ClientRecreatedOnChange ==
    [][Sends =>
          LET T == client'.found
              S == client'.server_url
          IN  /\ (\/ Truthy(T) /\ client.token # T
                  \/ S.has /\ client.server # S.val) => client'.anew
              /\ Truthy(T) => (client'.token = T /\ client'.bearer = T)
              /\ S.has => (client'.server = S.val /\ client'.to = S.val)]_vars

\* A call with the auth argument k, and DRY_AI_SERVER set, replaced a _client
\* that had neither, and its request went out with k to that server.
C22_Witness ==
    /\ client.op \in SpaceOps
    /\ client.stage = "wait"
    /\ client.anew
    /\ client.found = Some(<<"k">>)
    /\ client.bearer = Some(<<"k">>)
    /\ client.server_url.has
    /\ client.to = client.server_url.val
    /\ client.to # DefaultServer

\* C28: after set_verbose_logging(v), the request of every later call is
\* sent by a client whose verbose is v, also when the call replaced _client.
C28_VerbositySurvives ==
    (client.stage = "wait" /\ client.wanted.has) => client.loud = client.wanted.val

\* The keys of the item's data that are the name n but for the case of
\* their letters, in the order of the data.
SameButCase(k, n) ==
    /\ Len(k) = Len(n)
    /\ \A i \in 1 .. Len(n) :
           \/ k[i] = n[i]
           \/ \E j \in 1 .. Len(LowerLetters) :
                  {k[i], n[i]} = {LowerLetters[j], UpperLetters[j]}

\* The value the lookup order of C23 gives for name n: the exact name, the
\* capitalized name, the upper-cased name, the first key equal but for case;
\* None when there is none.
Looked(n) ==
    LET d  == wrapped.data
        in(k) == \E i \in 1 .. Len(d) : d[i] = k
        ci == {i \in 1 .. Len(d) : SameButCase(d[i], n)}
    IN  IF in(n) THEN Value(n)
        ELSE IF in(Capitalize(n)) THEN Value(Capitalize(n))
        ELSE IF in(Upper(n)) THEN Value(Upper(n))
        ELSE IF ci # {} THEN Value(d[CHOOSE i \in ci : \A j \in ci : i <= j])
        ELSE PyNone

\* An attribute was just asked of the item.
Asked == wrapped.asked # <<>>

\* C23 as stated: for every attribute name that __init__ does not set, the
\* access gives the value the lookup order gives.
C23_LookupOrderEveryName ==
    (Asked /\ wrapped.asked \notin {<<"i", "d">>}) => wrapped.got = Looked(wrapped.asked)

\* C23, amended: for every attribute name that is neither set by __init__
\* nor defined by the class, the access gives the value the lookup order
\* gives, and None when no key matches.
C23_LookupOrder ==
    (Asked /\ wrapped.asked \notin {<<"i", "d">>, <<"g", "e", "t">>}) =>
        wrapped.got = Looked(wrapped.asked)

\* te was asked of an item that holds TE and Te and not te: the capitalized
\* key won over the upper-cased one that comes first in the data.
C23_Witness ==
    /\ wrapped.asked = <<"t", "e">>
    /\ wrapped.data = <<<<"T", "E">>, <<"T", "e">>>>
    /\ wrapped.got = Value(<<"T", "e">>)

\* The number of lines of ls that assign the token.
Assignments(ls) == Cardinality(TokenPlaces(ls))

\* Every line of the file that assigns the token is the active assignment of
\* t, and there is one at least.
AllAssign(t) ==
    /\ Assignments(FileLines) >= 1
    /\ \A i \in TokenPlaces(FileLines) : LineText(FileLines[i]) = Assignment(t)

\* C24 as stated: after set(t) the file holds exactly one line that assigns
\* the token, the active assignment of t.
C24_SingleTokenLine ==
    SetDone => (Assignments(FileLines) = 1 /\ AllAssign(SetToken))

\* set(t) found the file, failed to read it, and its write succeeded.
SetAfterFailedRead ==
    /\ SetCalled
    /\ last.pre.exists
    /\ ~last.rd_ok
    /\ last.wr = "ok"

\* C25: when the read inside set(t) fails and its write succeeds, every
\* unrelated line the file held is still in the file.
C25_FailedReadKeepsLines ==
    SetAfterFailedRead =>
        \A i \in 1 .. Len(PreLines) :
            Unrelated(PreLines[i]) =>
                \E j \in 1 .. Len(FileLines) :
                    LineText(FileLines[j]) = LineText(PreLines[i])

\* authenticate_user has just returned.
Authenticated == last.op = "authenticate_user" /\ pc = "idle"

\* C26 as stated: a token that authenticate returns is what get() returns in
\* the process, and a token the server issued in a successful verify response
\* is the token authenticate returns.
C26_IssuedTokenReturned ==
    /\ (Authenticated /\ last.result.has) => GetHere = last.result
    /\ Issued => last.result = last.resp.mcpToken

\* C26, amended: a token that authenticate returns is the token the server
\* issued and is what get() returns in the process; a token the server issued
\* is returned when set stored it, and authenticate returns nothing when set
\* failed to write the file.
C26_ReturnAgreesWithStore ==
    /\ (Authenticated /\ last.result.has) =>
           /\ Issued
           /\ last.result = last.resp.mcpToken
           /\ GetHere = last.result
    /\ Issued =>
           /\ last.wr = "ok" => last.result = last.resp.mcpToken
           /\ last.wr # "ok" => (last.result = None /\ last.raised)

\* authenticate returned the token of the server in a process that had no
\* token and no file, and get() gives it.
C26_Witness ==
    /\ Issued
    /\ ~last.pre.exists
    /\ ~last.pre.env.has
    /\ last.result = Some(<<"c", SP>>)
    /\ GetHere = last.result

\* On the store as it is, _load_token_from_env of a new auth object loads
\* what get_stored_token returns, whatever the outcome of the read.
LoadAgreesWithGet ==
    \A rd \in ScanOutcomes(FileLines, TRUE) :
        load_token_from_env(None, environ, file_exists, file_content, rd).result
            = get_stored_token(environ, file_exists, file_content, rd).result

\* On the store as it is, clear_token and clear_stored_token leave the same
\* file and the same environment, whatever the outcome of the file
\* operations.
ClearsAgree ==
    \A o \in ClearOutcomes(TRUE) :
        LET a == clear_token(Store, o.rd_ok, o.w)
            b == clear_stored_token(Store, o.rd_ok, o.w)
        IN  /\ a.env = b.env
            /\ a.exists = b.exists
            /\ a.content = b.content

\* set, clear_token or clear_stored_token has just run.
StoreChanged == SetCalled \/ last.op \in Clears

\* C29: _load_token_from_env loads what get_stored_token returns; clear_token
\* and clear_stored_token leave the same file and environment; and after set,
\* clear_token or clear_stored_token the is_authenticated() of the auth object
\* is the is_authenticated() of the module.
C29_ImplementationsAgree ==
    /\ LoadAgreesWithGet
    /\ ClearsAgree
    /\ StoreChanged => (Truthy(current_token) <=> Truthy(GetHere))

\* Both processes have returned from their set or clear.
BothReturned == \A p \in Procs : race.proc[p].at = "done"

\* C30: when two processes have run set or clear on the file side by side,
\* every unrelated line the file held before is still in the file.
C30_UnrelatedLinesSurviveRace ==
    BothReturned =>
        \A i \in 1 .. Len(PreLines) :
            Unrelated(PreLines[i]) =>
                \E j \in 1 .. Len(FileLines) :
                    LineText(FileLines[j]) = LineText(PreLines[i])

====
